---- MODULE Spec2Model ----
(***************************************************************************)
(* Model of utils/telegram_sender.py: the Markdown-to-HTML renderer, the   *)
(* local heuristic splitter, the Gemini-backed splitter with its fallback  *)
(* and the two public send functions; and of main                          *)
(* (exchange_info_ai_agent.py): its loops over the channels and the posts, *)
(* with the entry point of utils/twitter_reader.py and the result of       *)
(* utils/ai_translator.py.                                                 *)
(*                                                                         *)
(* A text is a sequence of one-character strings.  Python indexes are      *)
(* 0-based; the operators named after Python functions (rfind, slices)     *)
(* keep the 0-based results of the code and convert at the sequence.       *)
(***************************************************************************)
EXTENDS Integers, Sequences, FiniteSets, TLC

VARIABLES
    pc,         \* position of the program in the call being modelled
    text,       \* the text argument of the call
    limit,      \* the limit argument of the call
    api_key,    \* GEMINI_API_KEY is set
    reply,      \* what the Gemini call produced for this call
    called,     \* number of Gemini requests issued by this call
    result,     \* the value the call returned (None before it returns)
    fn,         \* the send function called: "message" or "photo" ("" if none)
    tg_creds,   \* TELEGRAM_BOT_TOKEN and TELEGRAM_CHAT_ID are both set
    post_type,  \* post_type of the call (<<>>: None or the empty string)
    caption_chunks, \* send_photo_to_telegram_channel: its caption_chunks
    tail_i,     \* send_photo_to_telegram_channel: tail chunk being sent (from 1)
    caller,     \* who runs send_telegram_message_html: "main" or "photo"
    msg_type,   \* send_telegram_message_html: its post_type argument
    raw_chunks, \* send_telegram_message_html: its raw_chunks
    msg_i,      \* send_telegram_message_html: the loop counter i
    sent,       \* the requests posted to Telegram so far, in order
    mpc,        \* position of main ("" when main is not running)
    channels,   \* main: channels_data, the rows of the sheet
    timeline,   \* the posts the Twitter API holds for each channel, in order
    ch,         \* main: index of the channel of the outer loop (from 1)
    messages,   \* main: the list `messages` of the current channel
    post_i,     \* main: index of the post of the inner loop (from 1)
    posted_messages, \* main: the texts load_posted_messages returned
    translated, \* main: the translation of the current post
    result_output,   \* main: the list result_output
    saved,      \* what save_results was given (None when it was not called)
    skipped,    \* the channels main left at the fetch, in order
    events,     \* the calls main made for its posts, in order
    loop_remaining, \* _split_for_telegram_raw: the local `remaining`
    loop_parts, \* _split_for_telegram_raw: the local `parts`
    loop_idx    \* _split_for_telegram_raw: split_idx of the last iteration

callVars == <<limit, reply, called, result>>
sendVars == <<fn, tg_creds, post_type, caption_chunks, tail_i, caller,
              msg_type, raw_chunks, msg_i, sent>>
mainVars == <<mpc, channels, timeline, ch, messages, post_i, posted_messages,
              translated, result_output, saved, skipped, events>>
loopVars == <<loop_remaining, loop_parts, loop_idx>>
vars == <<pc, text, api_key, callVars, sendVars, mainVars, loopVars>>

\* the send variables of a behaviour that calls no send function
NoSend ==
    /\ fn = ""
    /\ tg_creds = FALSE
    /\ post_type = <<>>
    /\ caption_chunks = <<>>
    /\ tail_i = 0
    /\ caller = ""
    /\ msg_type = <<>>
    /\ raw_chunks = <<>>
    /\ msg_i = 0
    /\ sent = <<>>

\* the variables of main in a behaviour that does not run main
NoMain ==
    /\ mpc = ""
    /\ channels = <<>>
    /\ timeline = <<>>
    /\ ch = 0
    /\ messages = <<>>
    /\ post_i = 0
    /\ posted_messages = {}
    /\ translated = <<>>
    /\ result_output = <<>>
    /\ saved = [some |-> FALSE, val |-> <<>>]
    /\ skipped = <<>>
    /\ events = <<>>

\* the locals of _split_for_telegram_raw outside its loop
NoLoop ==
    /\ loop_remaining = <<>>
    /\ loop_parts = <<>>
    /\ loop_idx = -1

\* an Optional value of the code: None, or Some(v) for the value v
None == [some |-> FALSE, val |-> <<>>]
Some(v) == [some |-> TRUE, val |-> v]

(***************************************************************************)
(* Bounds of the checked instances.                                        *)
(***************************************************************************)
MaxLen == 5      \* longest text of the splitter instances
MaxLimit == 4    \* largest limit of the splitter instances
MaxSelLen == 3   \* longest text of the Gemini-splitter instances
MaxItems == 2    \* most elements of a JSON array Gemini replies with
MaxItemLen == 2  \* longest string element of such an array
MaxRenderLen == 6  \* longest text of the exhaustive renderer instances

(***************************************************************************)
(* Strings.                                                                *)
(***************************************************************************)
\* str.strip()/lstrip()/rstrip() with no argument remove whitespace
WS == {" ", "\n", "\t"}

Rep(c, n) == [k \in 1..n |-> c]

\* s[a:b] for 0 <= a, any b >= 0 (Python clamps the slice to the string)
Slice(s, a, b) ==
    LET hi == IF b < Len(s) THEN b ELSE Len(s)
    IN  IF a >= hi THEN <<>> ELSE SubSeq(s, a + 1, hi)

\* pat occurs in s at 0-based index k
OccursAt(s, pat, k) ==
    /\ k >= 0
    /\ k + Len(pat) <= Len(s)
    /\ \A j \in 1..Len(pat) : s[k + j] = pat[j]

\* largest k in lo..hi at which pat occurs in s, or -1 (bisection keeps the
\* evaluation depth logarithmic in the length of s)
RECURSIVE rfind_in(_, _, _, _)
rfind_in(s, pat, lo, hi) ==
    IF lo > hi THEN -1
    ELSE IF lo = hi THEN (IF OccursAt(s, pat, lo) THEN lo ELSE -1)
    ELSE LET mid == (lo + hi) \div 2
             r   == rfind_in(s, pat, mid + 1, hi)
         IN  IF r # -1 THEN r ELSE rfind_in(s, pat, lo, mid)

\* str.rfind(pat): highest index of an occurrence, -1 when there is none
rfind(s, pat) == rfind_in(s, pat, 0, Len(s) - Len(pat))

\* index (1-based) of the last / first non-whitespace character in lo..hi, or 0
RECURSIVE last_nonws(_, _, _)
last_nonws(s, lo, hi) ==
    IF lo > hi THEN 0
    ELSE IF lo = hi THEN (IF s[lo] \in WS THEN 0 ELSE lo)
    ELSE LET mid == (lo + hi) \div 2
             r   == last_nonws(s, mid + 1, hi)
         IN  IF r # 0 THEN r ELSE last_nonws(s, lo, mid)

RECURSIVE first_nonws(_, _, _)
first_nonws(s, lo, hi) ==
    IF lo > hi THEN 0
    ELSE IF lo = hi THEN (IF s[lo] \in WS THEN 0 ELSE lo)
    ELSE LET mid == (lo + hi) \div 2
             l   == first_nonws(s, lo, mid)
         IN  IF l # 0 THEN l ELSE first_nonws(s, mid + 1, hi)

rstrip(s) == SubSeq(s, 1, last_nonws(s, 1, Len(s)))

lstrip(s) ==
    LET f == first_nonws(s, 1, Len(s))
    IN  IF f = 0 THEN <<>> ELSE SubSeq(s, f, Len(s))

strip(s) == lstrip(rstrip(s))

\* "".join(segs)
RECURSIVE Join(_)
Join(segs) == IF Len(segs) = 0 THEN <<>> ELSE Head(segs) \o Join(Tail(segs))

(***************************************************************************)
(* Markdown -> HTML renderer (render_html_with_basic_md).                  *)
(*                                                                         *)
(* Positions of a match are 1-based sequence indexes: a match covers       *)
(* s[start..end], so m.start() = start - 1 and m.end() = end.              *)
(***************************************************************************)
Min(S) == CHOOSE x \in S : \A y \in S : x <= y

\* EscapeChar that lets the angle brackets through
EscapeChar_amp_only(c) ==
    CASE c = "&"  -> <<"&", "a", "m", "p", ";">>
      [] c = "\"" -> <<"&", "q", "u", "o", "t", ";">>
      [] c = "'"  -> <<"&", "#", "x", "2", "7", ";">>
      [] OTHER    -> <<c>>

\* html.escape(c) for one character (quote=True, the default as well)
EscapeChar(c) ==
    CASE c = "&"  -> <<"&", "a", "m", "p", ";">>
      [] c = "<"  -> <<"&", "l", "t", ";">>
      [] c = ">"  -> <<"&", "g", "t", ";">>
      [] c = "\"" -> <<"&", "q", "u", "o", "t", ";">>
      [] c = "'"  -> <<"&", "#", "x", "2", "7", ";">>
      [] OTHER    -> <<c>>

\* the escapes of s[lo..hi] concatenated (bisection, as in rfind_in)
RECURSIVE escape_range(_, _, _)
escape_range(s, lo, hi) ==
    IF lo > hi THEN <<>>
    ELSE IF lo = hi THEN EscapeChar(s[lo])
    ELSE LET mid == (lo + hi) \div 2
         IN  escape_range(s, lo, mid) \o escape_range(s, mid + 1, hi)

html_escape(s) == escape_range(s, 1, Len(s))

\* a match object of token_re: the groups 2..7 are None when they took no part
NoMatch ==
    [kind |-> "none", start |-> 0, end |-> 0,
     g2 |-> None, g3 |-> None, g4 |-> None, g5 |-> None, g6 |-> None, g7 |-> None]

\* \[([^\]]+)\]\((https?://[^)\s]+)\) at position p
LinkAt(s, p) ==
    LET n       == Len(s)
        closers == {q \in (p + 1)..n : s[q] = "]"}
    IN  IF s[p] # "[" \/ closers = {} THEN NoMatch
        ELSE
        LET q      == Min(closers)               \* the label is s[p+1..q-1]
            https  == OccursAt(s, <<"(", "h", "t", "t", "p", "s", ":", "/", "/">>, q)
            http   == OccursAt(s, <<"(", "h", "t", "t", "p", ":", "/", "/">>, q)
            b0     == IF https THEN q + 10 ELSE q + 9   \* first character after ://
            parens == {r \in b0..n : s[r] = ")"}
        IN  IF q < p + 2 \/ ~(https \/ http) \/ parens = {} THEN NoMatch
            ELSE
            LET r == Min(parens)
            IN  IF r = b0 \/ \E k \in b0..(r - 1) : s[k] \in WS THEN NoMatch
                ELSE [NoMatch EXCEPT !.kind = "link", !.start = p, !.end = r,
                                     !.g2 = Some(SubSeq(s, p + 1, q - 1)),
                                     !.g3 = Some(SubSeq(s, q + 2, r - 1))]

\* (\*\*|__)(.+?)\4 at position p
BoldAt(s, p) ==
    LET n     == Len(s)
        delim == IF OccursAt(s, <<"*", "*">>, p - 1) THEN <<"*", "*">>
                 ELSE IF OccursAt(s, <<"_", "_">>, p - 1) THEN <<"_", "_">>
                 ELSE <<>>
        closers == {q \in (p + 3)..n : OccursAt(s, delim, q - 1)}
    IN  IF delim = <<>> \/ closers = {} THEN NoMatch
        ELSE LET q == Min(closers)
             IN  [NoMatch EXCEPT !.kind = "bold", !.start = p, !.end = q + 1,
                                 !.g4 = Some(delim),
                                 !.g5 = Some(SubSeq(s, p + 2, q - 1))]

\* a delimiter d at position q that is not next to another d:
\* (?<!d)d(?!d)
SingleDelimAt(s, q, d) ==
    /\ q >= 1 /\ q <= Len(s)
    /\ s[q] = d
    /\ (q = 1 \/ s[q - 1] # d)
    /\ (q = Len(s) \/ s[q + 1] # d)

\* ItalicAt without the look-arounds: any d opens and closes
ItalicAt_no_lookaround(s, p, d) ==
    LET closers == {q \in (p + 2)..Len(s) : s[q] = d}
    IN  IF s[p] # d \/ closers = {} THEN NoMatch
        ELSE LET q     == Min(closers)
                 inner == Some(SubSeq(s, p + 1, q - 1))
             IN  IF d = "*"
                 THEN [NoMatch EXCEPT !.kind = "italic", !.start = p, !.end = q,
                                      !.g6 = inner]
                 ELSE [NoMatch EXCEPT !.kind = "italic", !.start = p, !.end = q,
                                      !.g7 = inner]

\* (?<!d)d(?!d)(.+?)(?<!d)d(?!d) at position p, for d = "*" or d = "_"
ItalicAt(s, p, d) ==
    LET closers == {q \in (p + 2)..Len(s) : SingleDelimAt(s, q, d)}
    IN  IF ~SingleDelimAt(s, p, d) \/ closers = {} THEN NoMatch
        ELSE LET q     == Min(closers)
                 inner == Some(SubSeq(s, p + 1, q - 1))
             IN  IF d = "*"
                 THEN [NoMatch EXCEPT !.kind = "italic", !.start = p, !.end = q,
                                      !.g6 = inner]
                 ELSE [NoMatch EXCEPT !.kind = "italic", !.start = p, !.end = q,
                                      !.g7 = inner]

\* token_re at position p: the alternatives in the order of the pattern
TokenAt(s, p) ==
    LET l == LinkAt(s, p)
        b == BoldAt(s, p)
        i == ItalicAt(s, p, "*")
    IN  IF l.kind # "none" THEN l
        ELSE IF b.kind # "none" THEN b
        ELSE IF i.kind # "none" THEN i
        ELSE ItalicAt(s, p, "_")

\* token_re.finditer(s) from position pos on: leftmost match, then on from
\* its end
RECURSIVE finditer_from(_, _)
finditer_from(s, pos) ==
    LET starts == {p \in pos..Len(s) : TokenAt(s, p).kind # "none"}
    IN  IF starts = {} THEN <<>>
        ELSE LET m == TokenAt(s, Min(starts))
             IN  <<m>> \o finditer_from(s, m.end + 1)

finditer(s) == finditer_from(s, 1)

\* the if/elif chain of the loop body on one match
RenderToken(s, m) ==
    IF m.g2.some /\ m.g2.val # <<>> /\ m.g3.some /\ m.g3.val # <<>>
    THEN <<"<", "a", " ", "h", "r", "e", "f", "=", "\"">> \o html_escape(m.g3.val)
         \o <<"\"", ">">> \o html_escape(m.g2.val) \o <<"<", "/", "a", ">">>
    ELSE IF m.g4.some /\ m.g4.val # <<>> /\ m.g5.some
    THEN <<"<", "b", ">">> \o html_escape(m.g5.val) \o <<"<", "/", "b", ">">>
    ELSE IF m.g6.some
    THEN <<"<", "i", ">">> \o html_escape(m.g6.val) \o <<"<", "/", "i", ">">>
    ELSE IF m.g7.some
    THEN <<"<", "i", ">">> \o html_escape(m.g7.val) \o <<"<", "/", "i", ">">>
    ELSE html_escape(SubSeq(s, m.start, m.end))

\* the for loop from the k-th match on, i being m.end() of the match before
RECURSIVE RenderLoop(_, _, _, _)
RenderLoop(s, ms, k, i) ==
    IF k > Len(ms) THEN html_escape(Slice(s, i, Len(s)))
    ELSE html_escape(Slice(s, i, ms[k].start - 1))
         \o RenderToken(s, ms[k])
         \o RenderLoop(s, ms, k + 1, ms[k].end)

render_html_with_basic_md(t) ==
    IF t = <<>> THEN <<>> ELSE RenderLoop(t, finditer(t), 1, 0)

(***************************************************************************)
(* Local heuristic splitter (_split_for_telegram_raw).                     *)
(***************************************************************************)
\* the test of a found break point without the 40% condition
PastFortyPercent_found_only(idx, lim) == idx # -1

\* idx != -1 and idx > limit * 0.4   (0.4 * limit < idx  <=>  2*limit < 5*idx)
PastFortyPercent(idx, lim) == idx # -1 /\ 5 * idx > 2 * lim

\* 1. double newline
DoubleNewlineCut(chunk, lim) ==
    LET idx == rfind(chunk, <<"\n", "\n">>)
    IN  IF PastFortyPercent(idx, lim) THEN idx + 2 ELSE -1

\* 2. single newline
NewlineCut(chunk, lim) ==
    LET idx == rfind(chunk, <<"\n">>)
    IN  IF PastFortyPercent(idx, lim) THEN idx + 1 ELSE -1

\* 3. sentence end: the enders are tried in the order ". ", "! ", "? " and the
\*    first one whose last occurrence lies past 40% is taken (break)
SentenceEnders_question_first == << <<"?", " ">>, <<"!", " ">>, <<".", " ">> >>

SentenceEnders == << <<".", " ">>, <<"!", " ">>, <<"?", " ">> >>

RECURSIVE SentenceCutFrom(_, _, _)
SentenceCutFrom(chunk, lim, k) ==
    IF k > Len(SentenceEnders) THEN -1
    ELSE LET ender == SentenceEnders[k]
             idx   == rfind(chunk, ender)
         IN  IF PastFortyPercent(idx, lim) THEN idx + Len(ender)
             ELSE SentenceCutFrom(chunk, lim, k + 1)

SentenceCut(chunk, lim) == SentenceCutFrom(chunk, lim, 1)

\* 4. last space
SpaceCut(chunk, lim) ==
    LET idx == rfind(chunk, <<" ">>)
    IN  IF PastFortyPercent(idx, lim) THEN idx + 1 ELSE -1

\* SplitIdx with the hard cut one character past the window
SplitIdx_hardcut_past_window(remaining, lim) ==
    LET chunk == Slice(remaining, 0, lim)
        s1 == DoubleNewlineCut(chunk, lim)
        s2 == IF s1 = -1 THEN NewlineCut(chunk, lim) ELSE s1
        s3 == IF s2 = -1 THEN SentenceCut(chunk, lim) ELSE s2
        s4 == IF s3 = -1 THEN SpaceCut(chunk, lim) ELSE s3
    IN  IF s4 = -1 THEN lim + 1 ELSE s4

\* SplitIdx with the last space tried before the sentence ends
SplitIdx_space_before_sentence(remaining, lim) ==
    LET chunk == Slice(remaining, 0, lim)
        s1 == DoubleNewlineCut(chunk, lim)
        s2 == IF s1 = -1 THEN NewlineCut(chunk, lim) ELSE s1
        s3 == IF s2 = -1 THEN SpaceCut(chunk, lim) ELSE s2
        s4 == IF s3 = -1 THEN SentenceCut(chunk, lim) ELSE s3
    IN  IF s4 = -1 THEN lim ELSE s4

\* the cascade of one loop iteration: split_idx for the window remaining[:limit]
SplitIdx(remaining, lim) ==
    LET chunk == Slice(remaining, 0, lim)
        s1 == DoubleNewlineCut(chunk, lim)
        s2 == IF s1 = -1 THEN NewlineCut(chunk, lim) ELSE s1
        s3 == IF s2 = -1 THEN SentenceCut(chunk, lim) ELSE s2
        s4 == IF s3 = -1 THEN SpaceCut(chunk, lim) ELSE s3
    IN  IF s4 = -1 THEN lim ELSE s4

\* the while loop: parts appended from `remaining` on
RECURSIVE SplitLoop(_, _)
SplitLoop(remaining, lim) ==
    IF Len(remaining) = 0 THEN <<>>
    ELSE IF Len(remaining) <= lim THEN <<remaining>>
    ELSE LET split_idx == SplitIdx(remaining, lim)
             part      == rstrip(Slice(remaining, 0, split_idx))
             rest      == lstrip(Slice(remaining, split_idx, Len(remaining)))
         IN  <<part>> \o SplitLoop(rest, lim)

\* _split_for_telegram_raw with the guard of the early return off by one
_split_for_telegram_raw_offbyone(t, lim) ==
    IF Len(t) <= lim + 1 THEN <<t>>
    ELSE LET parts == SplitLoop(t, lim)
         IN  [k \in 1..Len(parts) |-> Slice(parts[k], 0, lim)]

_split_for_telegram_raw(t, lim) ==
    IF Len(t) <= lim THEN <<t>>
    ELSE LET parts == SplitLoop(t, lim)
         IN  [k \in 1..Len(parts) |-> Slice(parts[k], 0, lim)]

(***************************************************************************)
(* Instances of the heuristic splitter: every text over SplitChars of      *)
(* length <= MaxLen and every limit in 1..MaxLimit.                        *)
(***************************************************************************)
SplitChars == {"a", " ", "\n", ".", "!"}

TextsUpTo(chars, n) == UNION {[1..k -> chars] : k \in 0..n}

InitSplit ==
    /\ pc = "split_start"
    /\ text \in TextsUpTo(SplitChars, MaxLen)
    /\ limit \in 1..MaxLimit
    /\ api_key = FALSE
    /\ reply = None
    /\ called = 0
    /\ result = None
    /\ NoSend
    /\ NoMain
    /\ NoLoop

CallSplitRaw ==
    /\ pc = "split_start"
    /\ result' = Some(_split_for_telegram_raw(text, limit))
    /\ pc' = "split_done"
    /\ UNCHANGED <<text, limit, api_key, reply, called, sendVars, mainVars, loopVars>>

NextSplit == CallSplitRaw

SpecSplit == InitSplit /\ [][NextSplit]_vars

(***************************************************************************)
(* Properties of the heuristic splitter.                                   *)
(***************************************************************************)
NotWS(c) == c \notin WS
RemoveWS(s) == SelectSeq(s, NotWS)

\* the characters a..b (1-based, inclusive) of t are all whitespace
AllWS(t, a, b) == \A k \in a..b : t[k] \in WS

\* segs[k], segs[k+1], ... can be laid in this order on t from position pos
\* on (1-based) as disjoint substrings, every character between two of them
\* and after the last one being whitespace
RECURSIVE LaidOutFrom(_, _, _, _)
LaidOutFrom(segs, k, t, pos) ==
    IF k > Len(segs) THEN AllWS(t, pos, Len(t))
    ELSE \E start \in pos..(Len(t) + 1) :
            /\ AllWS(t, pos, start - 1)
            /\ start - 1 + Len(segs[k]) <= Len(t)
            /\ Slice(t, start - 1, start - 1 + Len(segs[k])) = segs[k]
            /\ LaidOutFrom(segs, k + 1, t, start + Len(segs[k]))

\* the first segment starts at the first character of t
LaidOut(segs, t) ==
    /\ Len(segs) >= 1
    /\ Len(segs[1]) <= Len(t)
    /\ Slice(t, 0, Len(segs[1])) = segs[1]
    /\ LaidOutFrom(segs, 2, t, Len(segs[1]) + 1)

\* C1: every segment returned by _split_for_telegram_raw(t, L), L >= 1, has
\* length <= L, whichever break-point branch produced it.
C1_SegmentsWithinLimit ==
    pc = "split_done" =>
        \A k \in 1..Len(result.val) : Len(result.val[k]) <= limit

\* a split of three or more segments, one of them cut at exactly the limit
C1_Witness ==
    /\ pc = "split_done"
    /\ Len(text) > limit
    /\ Len(result.val) >= 3
    /\ \E k \in 1..Len(result.val) : Len(result.val[k]) = limit

\* C4: the segments are, in order, disjoint contiguous substrings of t, only
\* whitespace next to a cut is left out, and so the segments joined and t
\* are the same string once all whitespace is deleted.
C4_ContentPreserved ==
    pc = "split_done" =>
        /\ LaidOut(result.val, text)
        /\ RemoveWS(Join(result.val)) = RemoveWS(text)

\* a split that dropped whitespace at a cut
C4_Witness ==
    /\ pc = "split_done"
    /\ Len(result.val) >= 2
    /\ Len(Join(result.val)) < Len(text)
    /\ RemoveWS(text) # <<>>

(***************************************************************************)
(* Instances of the heuristic splitter with room for two break points in   *)
(* the window past its 40%: texts made of up to MaxFrags fragments, and    *)
(* the limits 6 and 7.                                                     *)
(***************************************************************************)
MaxFrags == 4

Fragments ==
    {<<"a">>, <<"a", "a", "a">>, <<"\n">>, <<"\n", "\n">>, <<".", " ">>,
     <<"!", " ">>, <<"?", " ">>, <<" ">>, <<"a", " ">>, <<"a", "\n">>}

CascadeTexts == {Join(fs) : fs \in UNION {[1..m -> Fragments] : m \in 0..MaxFrags}}

CascadeLimits == {6, 7}

InitCascade ==
    /\ pc = "split_start"
    /\ text \in CascadeTexts
    /\ limit \in CascadeLimits
    /\ api_key = FALSE
    /\ reply = None
    /\ called = 0
    /\ result = None
    /\ NoSend
    /\ NoMain
    /\ NoLoop

NextCascade == CallSplitRaw

SpecCascade == InitCascade /\ [][NextCascade]_vars

(***************************************************************************)
(* The break points of the heuristic splitter, stated on the window.       *)
(***************************************************************************)
Max(S) == CHOOSE x \in S : \A y \in S : y <= x

\* the 0-based indexes at which pat occurs in w
Occurrences(w, pat) == {k \in 0..(Len(w) - Len(pat)) : OccursAt(w, pat, k)}

\* the last occurrence of pat in w, when it lies past 40% of lim (a set of
\* at most one index)
LastPast(w, pat, lim) ==
    {k \in Occurrences(w, pat) : k = Max(Occurrences(w, pat)) /\ 10 * k > 4 * lim}

\* the sentence ends in w past 40% of lim
EndersPast(w, lim) ==
    {k \in 0..(Len(w) - 2) : /\ w[k + 1] \in {".", "!", "?"}
                             /\ w[k + 2] = " "
                             /\ 10 * k > 4 * lim}

\* the tier the cut of the window w is taken from
Tier(w, lim) ==
    IF LastPast(w, <<"\n", "\n">>, lim) # {} THEN "double_newline"
    ELSE IF LastPast(w, <<"\n">>, lim) # {} THEN "newline"
    ELSE IF EndersPast(w, lim) # {} THEN "sentence"
    ELSE IF LastPast(w, <<" ">>, lim) # {} THEN "space"
    ELSE "hard"

\* the cuts the tier allows: after the break point, or at lim
TierCuts(w, lim) ==
    CASE Tier(w, lim) = "double_newline" ->
            {k + 2 : k \in LastPast(w, <<"\n", "\n">>, lim)}
      [] Tier(w, lim) = "newline"  -> {k + 1 : k \in LastPast(w, <<"\n">>, lim)}
      [] Tier(w, lim) = "sentence" -> {k + 2 : k \in EndersPast(w, lim)}
      [] Tier(w, lim) = "space"    -> {k + 1 : k \in LastPast(w, <<" ">>, lim)}
      [] OTHER                     -> {lim}

\* parts[k], parts[k+1], ... are what the loop makes of `remaining` when every
\* iteration cuts at one of the cuts Cuts(window, lim)
RECURSIVE CutsFollow(_, _, _, _, _)
CutsFollow(Cuts(_, _), remaining, lim, parts, k) ==
    IF remaining = <<>> THEN k = Len(parts) + 1
    ELSE IF Len(remaining) <= lim THEN k = Len(parts) /\ parts[k] = remaining
    ELSE /\ k <= Len(parts)
         /\ \E cut \in Cuts(Slice(remaining, 0, lim), lim) :
               /\ parts[k] = rstrip(Slice(remaining, 0, cut))
               /\ CutsFollow(Cuts, lstrip(Slice(remaining, cut, Len(remaining))),
                             lim, parts, k + 1)

\* C12: in every iteration over a remaining text longer than the limit the
\* cut is taken from the highest tier that has a break point past 40% of
\* the window: double newline, single newline, sentence end, space, and the
\* hard cut at the limit when no tier has one.
C12_CutByTierPriority ==
    (pc = "split_done" /\ Len(text) > limit) =>
        CutsFollow(TierCuts, text, limit, result.val, 1)

\* the window's last newline is past 40% and a space lies further right, with
\* a letter between them: the cut is after the newline
C12_Witness ==
    /\ pc = "split_done"
    /\ Len(text) > limit
    /\ LET w == Slice(text, 0, limit)
       IN  /\ Tier(w, limit) = "newline"
           /\ \E n \in LastPast(w, <<"\n">>, limit), sp \in LastPast(w, <<" ">>, limit) :
                 /\ sp > n + 1
                 /\ w[sp] \notin WS
                 /\ result.val[1] = rstrip(Slice(text, 0, n + 1))
                 /\ result.val[1] # rstrip(Slice(text, 0, sp + 1))

\* the sentence tier cutting after the right-most sentence end of any kind
CutsRightmostEnder(w, lim) ==
    IF Tier(w, lim) = "sentence" THEN {Max(EndersPast(w, lim)) + 2}
    ELSE TierCuts(w, lim)

\* the sentence tier cutting after the last ". " when that is past 40%,
\* else after the last "! " when that is, else after the last "? "
CutsFirstEnderInOrder(w, lim) ==
    IF Tier(w, lim) = "sentence"
    THEN LET dot  == LastPast(w, <<".", " ">>, lim)
             bang == LastPast(w, <<"!", " ">>, lim)
             what == LastPast(w, <<"?", " ">>, lim)
         IN  {k + 2 : k \in IF dot # {} THEN dot ELSE IF bang # {} THEN bang ELSE what}
    ELSE TierCuts(w, lim)

\* C13 as claimed: a cut at the sentence tier is placed right after the
\* right-most sentence end ('.', '!' or '?' followed by a space) past 40% of
\* the window, whichever of the three characters it is.
C13_CutAfterRightmostEnder ==
    (pc = "split_done" /\ Len(text) > limit) =>
        CutsFollow(CutsRightmostEnder, text, limit, result.val, 1)

\* C13 amended: at the sentence tier the three ends are tried in the order
\* ". ", "! ", "? " and the cut is placed right after the last occurrence of
\* the first of them whose last occurrence lies past 40% of the window.
C13_CutAfterFirstEnderInOrder ==
    (pc = "split_done" /\ Len(text) > limit) =>
        CutsFollow(CutsFirstEnderInOrder, text, limit, result.val, 1)

\* a window cut at the sentence tier after its last ". " although a "! "
\* past 40% lies further right
C13_Witness ==
    /\ pc = "split_done"
    /\ Len(text) > limit
    /\ LET w == Slice(text, 0, limit)
       IN  /\ Tier(w, limit) = "sentence"
           /\ \E d \in LastPast(w, <<".", " ">>, limit),
                 b \in LastPast(w, <<"!", " ">>, limit) :
                 /\ b > d
                 /\ result.val[1] = rstrip(Slice(text, 0, d + 2))
                 /\ result.val[1] # rstrip(Slice(text, 0, b + 2))

(***************************************************************************)
(* _split_for_telegram_raw step by step: the guard before the loop, one    *)
(* step for every iteration of `while remaining:`, and the return.  The    *)
(* instances are those of SpecSplit.                                       *)
(***************************************************************************)
InitSplitLoop ==
    /\ pc = "loop_start"
    /\ text \in TextsUpTo(SplitChars, MaxLen)
    /\ limit \in 1..MaxLimit
    /\ api_key = FALSE
    /\ reply = None
    /\ called = 0
    /\ result = None
    /\ NoSend
    /\ NoMain
    /\ NoLoop

\* `if len(text) <= limit: return [text]`, else remaining = text
SplitEnter ==
    /\ pc = "loop_start"
    /\ IF Len(text) <= limit
       THEN /\ result' = Some(<<text>>)
            /\ pc' = "split_done"
            /\ UNCHANGED loopVars
       ELSE /\ loop_remaining' = text
            /\ loop_parts' = <<>>
            /\ pc' = "loop"
            /\ UNCHANGED <<result, loop_idx>>
    /\ UNCHANGED <<text, limit, api_key, reply, called, sendVars, mainVars>>

\* one iteration of the loop: the append and break when the rest fits, or
\* the cascade, the append of the part and the new `remaining`
SplitIterate ==
    /\ pc = "loop" /\ loop_remaining # <<>>
    /\ IF Len(loop_remaining) <= limit
       THEN /\ loop_parts' = Append(loop_parts, loop_remaining)
            /\ pc' = "loop_exit"
            /\ UNCHANGED <<loop_remaining, loop_idx>>
       ELSE LET idx == SplitIdx(loop_remaining, limit)
            IN  /\ loop_idx' = idx
                /\ loop_parts' = Append(loop_parts,
                                        rstrip(Slice(loop_remaining, 0, idx)))
                /\ loop_remaining' =
                       lstrip(Slice(loop_remaining, idx, Len(loop_remaining)))
                /\ pc' = pc
    /\ UNCHANGED <<text, limit, api_key, reply, called, result, sendVars, mainVars>>

\* the loop is over (`remaining` empty, or the break): the return
SplitReturn ==
    /\ \/ pc = "loop" /\ loop_remaining = <<>>
       \/ pc = "loop_exit"
    /\ result' = Some([k \in 1..Len(loop_parts) |-> Slice(loop_parts[k], 0, limit)])
    /\ pc' = "split_done"
    /\ UNCHANGED <<text, limit, api_key, reply, called, sendVars, mainVars, loopVars>>

NextSplitLoop ==
    \/ SplitEnter
    \/ SplitIterate
    \/ SplitReturn

SpecSplitLoop == InitSplitLoop /\ [][NextSplitLoop]_vars

\* C14: the splitter ends with a list for every text and every limit >= 1.
\* A text that fits (the empty text and a text of exactly limit characters
\* too) is returned as it is, as the only segment, the loop not entered.
\* Every iteration over a remaining text longer than the limit cuts at an
\* index > 0.4 * limit and >= 1 and leaves a strictly shorter remaining
\* text; the loop is left at once when the remaining text is empty or fits.
C14_LoopShrinksAndEnds ==
    /\ [](/\ (pc = "split_done" /\ Len(text) <= limit) =>
               (result = Some(<<text>>) /\ NoLoop)
          /\ loop_idx # -1 => (10 * loop_idx > 4 * limit /\ loop_idx >= 1)
          /\ pc = "split_done" =>
               (result.some /\ Len(result.val) >= 1
                /\ Len(result.val) <= Len(text) + 1)
          /\ Len(loop_remaining) <= Len(text))
    /\ [][/\ (pc = "loop" /\ pc' = "loop") =>
               /\ Len(loop_remaining) > limit
               /\ Len(loop_remaining') < Len(loop_remaining)
               /\ Len(loop_parts') = Len(loop_parts) + 1
          /\ (pc = "loop" /\ Len(loop_remaining) <= limit) => pc' # "loop"
          /\ pc = "split_done" => pc' = "split_done"]_vars

\* a split of three iterations that ended with nothing remaining
C14_Witness ==
    /\ pc = "split_done"
    /\ Len(loop_parts) >= 3
    /\ loop_remaining = <<>>
    /\ loop_idx >= 1

\* the steps of the loop and the function _split_for_telegram_raw agree
SplitLoopAgrees ==
    pc = "split_done" => result = Some(_split_for_telegram_raw(text, limit))

(***************************************************************************)
(* Gemini-powered splitter (_call_gemini, _split_with_gemini) and the      *)
(* splitter the senders use (split_text_with_gemini_or_fallback).          *)
(*                                                                         *)
(* What model.generate_content did is a record: kind "error" (it raised),  *)
(* "no_text" (a response with neither text nor candidates), "blank" (text  *)
(* that is empty once stripped) or "text".  A text reply carries what      *)
(* json.loads makes of it: "invalid" (JSONDecodeError), "object" (valid    *)
(* JSON that is not an array) or "list" with its items; an item is a       *)
(* string (isstr, with its characters) or some other JSON value.           *)
(***************************************************************************)
NoReply     == [kind |-> "none",    json |-> "none", items |-> <<>>]
ReplyError  == [kind |-> "error",   json |-> "none", items |-> <<>>]
ReplyNoText == [kind |-> "no_text", json |-> "none", items |-> <<>>]
ReplyBlank  == [kind |-> "blank",   json |-> "none", items |-> <<>>]
ReplyText(j, its) == [kind |-> "text", json |-> j, items |-> its]

StrItem(v) == [isstr |-> TRUE, v |-> v]
NonStrItem == [isstr |-> FALSE, v |-> <<>>]

\* the strings of a list of string items
ItemStrings(its) == [k \in 1..Len(its) |-> its[k].v]

\* _call_gemini: the stripped response text; None without a key, on an
\* exception and when the response has no text
_call_gemini(key, r) ==
    IF ~key THEN None
    ELSE IF r.kind = "error" THEN None
    ELSE IF r.kind = "no_text" THEN None
    ELSE Some(r)

\* `not raw`: None or the empty string
Falsy(raw) == ~raw.some \/ raw.val.kind = "blank"

\* the checks of _split_with_gemini on a reply that was received
ValidateReply(t, lim, raw) ==
    IF Falsy(raw) THEN None
    ELSE IF raw.val.json = "invalid" THEN None                 \* JSONDecodeError
    ELSE IF raw.val.json # "list" THEN None                    \* not a list
    ELSE IF \E k \in 1..Len(raw.val.items) : ~raw.val.items[k].isstr THEN None
    ELSE LET chunks == ItemStrings(raw.val.items)
         IN  IF Join(chunks) # t THEN None
             ELSE IF \E k \in 1..Len(chunks) : Len(chunks[k]) > lim THEN None
             ELSE Some(chunks)

\* the request is issued only with a key and a text longer than the limit
GeminiRequested(t, lim, key) == key /\ Len(t) > lim

\* _split_with_gemini with the concatenation check left out
_split_with_gemini_nojoin(t, lim, key, r) ==
    IF ~key THEN None
    ELSE IF Len(t) <= lim THEN Some(<<t>>)
    ELSE LET raw == _call_gemini(key, r)
         IN  IF Falsy(raw) \/ raw.val.json # "list" THEN None
             ELSE IF \E k \in 1..Len(raw.val.items) : ~raw.val.items[k].isstr
                  THEN None
             ELSE LET chunks == ItemStrings(raw.val.items)
                  IN  IF \E k \in 1..Len(chunks) : Len(chunks[k]) > lim THEN None
                      ELSE Some(chunks)

\* _split_with_gemini(text, limit), r being what Gemini does if it is asked
_split_with_gemini(t, lim, key, r) ==
    IF ~key THEN None
    ELSE IF Len(t) <= lim THEN Some(<<t>>)
    ELSE ValidateReply(t, lim, _call_gemini(key, r))

\* split_text_with_gemini_or_fallback returning Gemini's chunks unchecked
\* against None
split_text_with_gemini_or_fallback_nofallback(t, lim, key, r) ==
    IF Len(t) <= lim THEN <<t>>
    ELSE _split_with_gemini(t, lim, key, r).val

\* split_text_with_gemini_or_fallback(text, limit)
split_text_with_gemini_or_fallback(t, lim, key, r) ==
    IF Len(t) <= lim THEN <<t>>
    ELSE LET chunks == _split_with_gemini(t, lim, key, r)
         IN  IF chunks # None THEN chunks.val
             ELSE _split_for_telegram_raw(t, lim)

(***************************************************************************)
(* Instances of the two Gemini-backed splitters: every text over SelChars  *)
(* of length <= MaxSelLen, every limit in 1..MaxLimit, with and without a  *)
(* key, and every reply of Replies.                                        *)
(***************************************************************************)
SelChars == {"a", " "}

ReplyItems ==
    {StrItem(v) : v \in TextsUpTo(SelChars, MaxItemLen)} \cup {NonStrItem}

Replies ==
    {ReplyError, ReplyNoText, ReplyBlank,
     ReplyText("invalid", <<>>), ReplyText("object", <<>>)}
    \cup {ReplyText("list", its) : its \in TextsUpTo(ReplyItems, MaxItems)}

InitSelector ==
    /\ pc = "selector_start"
    /\ text \in TextsUpTo(SelChars, MaxSelLen)
    /\ limit \in 1..MaxLimit
    /\ api_key \in BOOLEAN
    /\ reply = NoReply
    /\ called = 0
    /\ result = None
    /\ NoSend
    /\ NoMain
    /\ NoLoop

\* a call of _split_with_gemini(text, limit)
CallSplitWithGemini ==
    /\ pc = "selector_start"
    /\ \E r \in Replies :
        /\ result' = _split_with_gemini(text, limit, api_key, r)
        /\ IF GeminiRequested(text, limit, api_key)
           THEN reply' = r /\ called' = called + 1
           ELSE UNCHANGED <<reply, called>>
    /\ pc' = "gemini_done"
    /\ UNCHANGED <<text, limit, api_key, sendVars, mainVars, loopVars>>

\* a call of split_text_with_gemini_or_fallback(text, limit)
CallSplitOrFallback ==
    /\ pc = "selector_start"
    /\ \E r \in Replies :
        /\ result' = Some(split_text_with_gemini_or_fallback(text, limit, api_key, r))
        /\ IF GeminiRequested(text, limit, api_key)
           THEN reply' = r /\ called' = called + 1
           ELSE UNCHANGED <<reply, called>>
    /\ pc' = "fallback_done"
    /\ UNCHANGED <<text, limit, api_key, sendVars, mainVars, loopVars>>

NextSelector == CallSplitWithGemini \/ CallSplitOrFallback

SpecSelector == InitSelector /\ [][NextSelector]_vars

(***************************************************************************)
(* Properties of the Gemini-backed splitters.                              *)
(***************************************************************************)
\* the reply is a JSON array whose elements are all strings
IsStringArray(r) ==
    /\ r.kind = "text"
    /\ r.json = "list"
    /\ \A k \in 1..Len(r.items) : r.items[k].isstr

\* the three checks of the claim on a reply
ReplyAccepted(t, lim, r) ==
    /\ IsStringArray(r)
    /\ Join(ItemStrings(r.items)) = t
    /\ \A k \in 1..Len(r.items) : Len(r.items[k].v) <= lim

\* C2: split_text_with_gemini_or_fallback returns a non-empty list of
\* segments of length <= L whatever Gemini does, and the heuristic
\* splitter's result whenever no reply was accepted (no key, error, empty
\* reply, not an array of strings, concatenation differs, element too long).
C2_FallbackIsBoundedAndHeuristic ==
    pc = "fallback_done" =>
        /\ Len(result.val) >= 1
        /\ \A k \in 1..Len(result.val) : Len(result.val[k]) <= limit
        /\ (~api_key \/ called = 0 \/ ~ReplyAccepted(text, limit, reply))
              => result.val = _split_for_telegram_raw(text, limit)

\* a rejected reply (a string array whose concatenation differs from the
\* text) answered by a heuristic split into several segments
C2_Witness ==
    /\ pc = "fallback_done"
    /\ called = 1
    /\ IsStringArray(reply)
    /\ Join(ItemStrings(reply.items)) # text
    /\ Len(result.val) >= 2

\* C3 as claimed: _split_with_gemini returns a list only if the assistant's
\* reply is a JSON array of strings that concatenates to the text with every
\* element within the limit.
C3_ListOnlyFromAcceptedReply ==
    (pc = "gemini_done" /\ result # None) =>
        (called = 1 /\ ReplyAccepted(text, limit, reply))

\* C3 as amended: with a key and a text within the limit it returns [text]
\* without asking; otherwise it returns a list only for an accepted reply,
\* and that list is the reply's elements; without a key, and for every
\* reply that is not accepted, it returns None.
C3_ListOnlyFromAcceptedReplyOrShortText ==
    pc = "gemini_done" =>
        /\ (api_key /\ Len(text) <= limit)
              => (result = Some(<<text>>) /\ called = 0)
        /\ ~api_key => (result = None /\ called = 0)
        /\ (api_key /\ Len(text) > limit) =>
              /\ called = 1
              /\ ReplyAccepted(text, limit, reply)
                    => result = Some(ItemStrings(reply.items))
              /\ ~ReplyAccepted(text, limit, reply) => result = None

\* an accepted reply of two elements returned as the split
C3_Witness ==
    /\ pc = "gemini_done"
    /\ called = 1
    /\ ReplyAccepted(text, limit, reply)
    /\ Len(result.val) = 2
    /\ result.some

(***************************************************************************)
(* Instances of the renderer: every text over RenderChars of length        *)
(* <= MaxRenderLen, the link-shaped texts of LinkTexts and the texts the   *)
(* specification names.                                                    *)
(***************************************************************************)
RenderChars == {"a", "*", "_", "<", "&"}

LinkPre == {<<>>,
     <<"*">>,
     <<"a">>}
LinkLabel == {<<>>,
     <<"a">>,
     <<"<">>,
     <<"a", "]">>,
     <<"*", "a", "*">>}
LinkMid == {<<"]", "(">>,
     <<"]">>,
     <<"]", " ", "(">>}
LinkScheme == {<<"h", "t", "t", "p", ":", "/", "/">>,
     <<"h", "t", "t", "p", "s", ":", "/", "/">>,
     <<"f", "t", "p", ":", "/", "/">>}
LinkBody == {<<>>,
     <<"x">>,
     <<"x", "&", "y">>,
     <<"x", " ", "y">>,
     <<"\"", "x">>}
LinkClose == {<<")">>,
     <<>>}
LinkSuffix == {<<>>,
     <<"*">>}

LinkTexts ==
    {pre \o <<"[">> \o lab \o mid \o sch \o body \o close \o suf :
        pre \in LinkPre, lab \in LinkLabel, mid \in LinkMid, sch \in LinkScheme,
        body \in LinkBody, close \in LinkClose, suf \in LinkSuffix}

Text_A_lt_B == <<"A", " ", "<", " ", "B">>
Text_go_link == <<"[", "g", "o", "]", "(", "h", "t", "t", "p", "s", ":", "/", "/", "x", ".", "c", "o", "m", ")">>
Text_bold_hi == <<"*", "*", "h", "i", "*", "*">>
Text_italic_hi == <<"*", "h", "i", "*">>
Text_star_hi == <<"*", "h", "i">>
Text_ubold_hi == <<"_", "_", "h", "i", "_", "_">>
Text_uitalic_hi == <<"_", "h", "i", "_">>

NamedTexts ==
    {Text_A_lt_B, Text_go_link, Text_bold_hi, Text_italic_hi, Text_star_hi,
     Text_ubold_hi, Text_uitalic_hi}

InitRender ==
    /\ pc = "render_start"
    /\ text \in TextsUpTo(RenderChars, MaxRenderLen) \cup LinkTexts \cup NamedTexts
    /\ limit = 0
    /\ api_key = FALSE
    /\ reply = NoReply
    /\ called = 0
    /\ result = None
    /\ NoSend
    /\ NoMain
    /\ NoLoop

CallRender ==
    /\ pc = "render_start"
    /\ result' = Some(render_html_with_basic_md(text))
    /\ pc' = "render_done"
    /\ UNCHANGED <<text, limit, api_key, reply, called, sendVars, mainVars, loopVars>>

NextRender == CallRender

SpecRender == InitRender /\ [][NextRender]_vars

(***************************************************************************)
(* Properties of the renderer.                                             *)
(***************************************************************************)
\* what follows the & of an entity html.escape produces
EntityBodies ==
    {<<"a", "m", "p", ";">>, <<"l", "t", ";">>, <<"g", "t", ";">>,
     <<"q", "u", "o", "t", ";">>, <<"#", "x", "2", "7", ";">>}

\* length of the entity that starts at o[i] (an &), 0 when none does
EntityLenAt(o, i) ==
    LET hits == {e \in EntityBodies : OccursAt(o, e, i)}
    IN  IF hits = {} THEN 0 ELSE 1 + Len(CHOOSE e \in hits : TRUE)

\* o[lo..hi] is escaped text: no < > " ' and every & starts an entity in it
EscapedText(o, lo, hi) ==
    \A k \in lo..hi :
        /\ o[k] \notin {"<", ">", "\"", "'"}
        /\ o[k] = "&" => (EntityLenAt(o, k) > 0 /\ k + EntityLenAt(o, k) - 1 <= hi)

TagB      == <<"<", "b", ">">>
TagI      == <<"<", "i", ">">>
TagAOpen  == <<"<", "a", " ", "h", "r", "e", "f", "=", "\"">>
CloseTag(e) == <<"<", "/", e, ">">>

\* o from position i on is escaped text and whole elements <a href="..">..</a>,
\* <b>..</b>, <i>..</i>; inside an element (open names it) only escaped text
\* and the element's own closing tag may follow
RECURSIVE WellFormedFrom(_, _, _)
WellFormedFrom(o, i, open) ==
    IF i > Len(o) THEN open = ""
    ELSE IF o[i] = "&"
    THEN EntityLenAt(o, i) > 0 /\ WellFormedFrom(o, i + EntityLenAt(o, i), open)
    ELSE IF o[i] = "<"
    THEN IF open # ""
         THEN OccursAt(o, CloseTag(open), i - 1) /\ WellFormedFrom(o, i + 4, "")
         ELSE \/ OccursAt(o, TagB, i - 1) /\ WellFormedFrom(o, i + 3, "b")
              \/ OccursAt(o, TagI, i - 1) /\ WellFormedFrom(o, i + 3, "i")
              \/ /\ OccursAt(o, TagAOpen, i - 1)
                 /\ \E j \in (i + 9)..(Len(o) - 1) :
                       /\ o[j] = "\"" /\ o[j + 1] = ">"
                       /\ EscapedText(o, i + 9, j - 1)
                       /\ WellFormedFrom(o, j + 2, "a")
    ELSE IF o[i] \in {">", "\"", "'"} THEN FALSE
    ELSE WellFormedFrom(o, i + 1, open)

WellFormed(o) == WellFormedFrom(o, 1, "")

Contains(s, c) == \E k \in 1..Len(s) : s[k] = c

\* C9: in the output of render_html_with_basic_md every < and > belongs to a
\* marker the renderer emits, every & starts an entity, everything else is
\* escaped, and the emitted elements are closed and never nested.
C9_OutputIsSafeMarkup ==
    pc = "render_done" => WellFormed(result.val)

\* a rendered link whose label holds a < and whose target holds an &
C9_Witness ==
    /\ pc = "render_done"
    /\ Len(finditer(text)) = 1
    /\ finditer(text)[1].kind = "link"
    /\ Contains(finditer(text)[1].g2.val, "<")
    /\ Contains(finditer(text)[1].g3.val, "&")

\* inner texts of the token examples: no delimiter, bracket or whitespace
PlainInner == {<<"a">>, <<"<">>, <<"&">>, <<"a", "a">>, <<"a", "<">>, <<"&", "a">>}

Wrapped(open, x, close) == open \o x \o close

\* C10: the renderer maps "" to "", "A < B" to "A &lt; B", a link, bold and
\* italic token to its element, leaves an unmatched delimiter literal, never
\* lets a lower-priority alternative win at a position where a higher one
\* matches, and never takes a doubled delimiter for an italic delimiter.
C10_TokensAndLiterals ==
    pc = "render_done" =>
        LET o == result.val
        IN  /\ text = <<>> => o = <<>>
            /\ text = Text_A_lt_B => o = <<"A", " ", "&", "l", "t", ";", " ", "B">>
            /\ text = Text_go_link => o = <<"<", "a", " ", "h", "r", "e", "f", "=", "\"", "h", "t", "t", "p", "s", ":", "/", "/", "x", ".", "c", "o", "m", "\"", ">", "g", "o", "<", "/", "a", ">">>
            /\ text = Text_bold_hi => o = <<"<", "b", ">", "h", "i", "<", "/", "b", ">">>
            /\ text = Text_ubold_hi => o = <<"<", "b", ">", "h", "i", "<", "/", "b", ">">>
            /\ text = Text_italic_hi => o = <<"<", "i", ">", "h", "i", "<", "/", "i", ">">>
            /\ text = Text_uitalic_hi => o = <<"<", "i", ">", "h", "i", "<", "/", "i", ">">>
            /\ text = Text_star_hi => o = Text_star_hi
            /\ \A x \in PlainInner :
                /\ text = Wrapped(<<"*", "*">>, x, <<"*", "*">>)
                      => o = Wrapped(TagB, html_escape(x), CloseTag("b"))
                /\ text = Wrapped(<<"_", "_">>, x, <<"_", "_">>)
                      => o = Wrapped(TagB, html_escape(x), CloseTag("b"))
                /\ text = Wrapped(<<"*">>, x, <<"*">>)
                      => o = Wrapped(TagI, html_escape(x), CloseTag("i"))
                /\ text = Wrapped(<<"_">>, x, <<"_">>)
                      => o = Wrapped(TagI, html_escape(x), CloseTag("i"))
                /\ text = <<"*">> \o x => o = <<"*">> \o html_escape(x)
                /\ text = <<"_">> \o x => o = <<"_">> \o html_escape(x)
                /\ text = <<"*", "*">> \o x => o = <<"*", "*">> \o html_escape(x)
                /\ text = <<"*", "*">> \o x \o <<"*">>
                      => o = <<"*", "*">> \o html_escape(x) \o <<"*">>
                /\ text = <<"*">> \o x \o <<"*", "*">>
                      => o = <<"*">> \o html_escape(x) \o <<"*", "*">>
            /\ \A lab \in LinkLabel \ {<<>>, <<"a", "]">>},
                  sch \in {<<"h", "t", "t", "p", ":", "/", "/">>,
                           <<"h", "t", "t", "p", "s", ":", "/", "/">>},
                  body \in {<<"x">>, <<"x", "&", "y">>, <<"\"", "x">>} :
                text = <<"[">> \o lab \o <<"]", "(">> \o sch \o body \o <<")">>
                    => o = TagAOpen \o html_escape(sch \o body) \o <<"\"", ">">>
                           \o html_escape(lab) \o CloseTag("a")
            /\ \A k \in 1..Len(finditer(text)) :
                LET m == finditer(text)[k]
                IN  /\ m.kind = "bold" => text[m.start] # "["
                    /\ m.kind = "italic" =>
                        /\ text[m.start] # "["
                        /\ (m.start = Len(text) \/ text[m.start + 1] # text[m.start])
                        /\ (m.start = 1 \/ text[m.start - 1] # text[m.start])
                        /\ text[m.end - 1] # text[m.end]
                        /\ (m.end = Len(text) \/ text[m.end + 1] # text[m.end])
                    /\ LinkAt(text, m.start).kind # "none" => m.kind = "link"
                    /\ (LinkAt(text, m.start).kind = "none"
                          /\ BoldAt(text, m.start).kind # "none") => m.kind = "bold"

\* the link example of the specification, rendered
C10_Witness ==
    /\ pc = "render_done"
    /\ text = Text_go_link
    /\ result.val = <<"<", "a", " ", "h", "r", "e", "f", "=", "\"", "h", "t", "t", "p", "s", ":", "/", "/", "x", ".", "c", "o", "m", "\"", ">", "g", "o", "<", "/", "a", ">">>

(***************************************************************************)
(* Public send functions (send_telegram_message_html,                      *)
(* send_photo_to_telegram_channel).  Every requests.post is one step; its  *)
(* outcome is the environment's choice.                                    *)
(***************************************************************************)
MESSAGE_LIMIT == 4096
CAPTION_LIMIT == 1024
TEXT_SPLIT_LIMIT == MESSAGE_LIMIT - 200
CAPTION_SPLIT_LIMIT == CAPTION_LIMIT - 50

\* f"[<b>{html.escape(post_type)}</b>]\n\n"
type_tag(label) ==
    <<"[", "<", "b", ">">> \o html_escape(label) \o <<"<", "/", "b", ">", "]", "\n", "\n">>

\* the tag put on every chunk of a labelled message
MessageTag_every_chunk(label, k) ==
    IF label # <<>> THEN type_tag(label) ELSE <<>>

\* send_telegram_message_html: what is put before the k-th chunk's markup
\* (if post_type and i == 1)
MessageTag(label, k) ==
    IF label # <<>> /\ k = 1 THEN type_tag(label) ELSE <<>>

\* send_photo_to_telegram_channel: what is put before the caption (if post_type)
CaptionTag(label) ==
    IF label # <<>> THEN type_tag(label) ELSE <<>>

\* head_raw without the truncation
HeadRaw_untruncated(chunks) == chunks[1]

\* head_raw after the "extra safety" truncation, and tail_chunks
HeadRaw(chunks) ==
    IF Len(chunks[1]) > CAPTION_LIMIT THEN Slice(chunks[1], 0, CAPTION_LIMIT)
    ELSE chunks[1]

TailChunks(chunks) == IF Len(chunks) > 1 THEN Tail(chunks) ELSE <<>>

\* one posted request as Telegram got it
Request(surface, raw, tag, html, outcome) ==
    [surface |-> surface, raw |-> raw, tag |-> tag, payload |-> tag \o html,
     outcome |-> outcome]

\* outcomes of requests.post(.../sendMessage) and of reading its response:
\* ok, an error response, or an exception (network, unparsable response)
MessageOutcomes == {"ok", "api_error", "exception"}

\* outcomes of the try block of send_photo_to_telegram_channel up to the
\* check of the response: the image file is missing, requests.post raises,
\* an ok response whose body is no JSON, an ok response, an error response
PhotoOutcomes == {"no_file", "exception", "bad_json", "ok", "api_error"}

\* the exception an outcome stands for ("": the step raises nothing):
\* open() of a missing image, requests.post failing, r.json() on a body that
\* is no JSON
Raised(outcome) ==
    CASE outcome = "no_file"   -> "FileNotFoundError"
      [] outcome = "exception" -> "RequestException"
      [] outcome = "bad_json"  -> "JSONDecodeError"
      [] OTHER                 -> ""

\* the classes above are all subclasses of Exception
ExceptionClasses ==
    {"FileNotFoundError", "RequestException", "JSONDecodeError", "TypeError"}

\* send_telegram_message_html: `except Exception` around each post
MessageCatches(exc) == exc \in ExceptionClasses

\* send_photo_to_telegram_channel with the first except clause only
PhotoCatches_missing_file_only(exc) == exc = "FileNotFoundError"

\* send_photo_to_telegram_channel: `except FileNotFoundError`, then
\* `except Exception`
PhotoCatches(exc) == exc = "FileNotFoundError" \/ exc \in ExceptionClasses

(***************************************************************************)
(* Instances of the send functions: the texts of SendTexts, with and       *)
(* without a label, Telegram credentials and a Gemini key.                 *)
(***************************************************************************)
\* s repeated n times
Repeat(s, n) == [k \in 1..(n * Len(s)) |-> s[((k - 1) % Len(s)) + 1]]

SendTexts ==
    {<<>>,
     <<"*", "*", "h", "i", "*", "*", " ", "<", "x", ">">>,
     Rep("a", 1100),
     Rep("<", 1025),
     Rep("a", 2 * CAPTION_SPLIT_LIMIT),
     Rep("a", TEXT_SPLIT_LIMIT + 1),
     Repeat(<<"a", "b", " ">>, 700),
     Repeat(<<"A", "a", ".", " ", "b", "\n">>, 200)}

SendLabels == {<<>>, <<"M", "&", "E">>}

\* t cut every lim characters
EvenSplit(s, lim) ==
    [k \in 1..((Len(s) + lim - 1) \div lim) |-> Slice(s, (k - 1) * lim, k * lim)]

StrItems(chunks) == [k \in 1..Len(chunks) |-> StrItem(chunks[k])]

\* what Gemini may do when a send function asks it to split s: fail, reply
\* with a split that passes the checks, or with an array that does not
\* concatenate to s
SendReplies(s, lim, key) ==
    IF GeminiRequested(s, lim, key)
    THEN {ReplyError,
          ReplyText("list", StrItems(EvenSplit(s, lim))),
          ReplyText("list", <<StrItem(Slice(s, 0, lim))>>)}
    ELSE {NoReply}

Init ==
    /\ pc = "start"
    /\ text \in SendTexts
    /\ api_key \in BOOLEAN
    /\ limit = 0
    /\ reply = NoReply
    /\ called = 0
    /\ result = None
    /\ fn \in {"message", "photo"}
    /\ tg_creds \in BOOLEAN
    /\ post_type \in SendLabels
    /\ caption_chunks = <<>>
    /\ tail_i = 0
    /\ caller = ""
    /\ msg_type = <<>>
    /\ raw_chunks = <<>>
    /\ msg_i = 0
    /\ sent = <<>>
    /\ NoMain
    /\ NoLoop

\* send_telegram_message_html(text, post_type) called by main, up to the loop
MessageStart ==
    /\ pc = "start" /\ fn = "message"
    /\ IF ~tg_creds
       THEN /\ pc' = "done"
            /\ UNCHANGED <<caller, msg_type, raw_chunks, msg_i>>
       ELSE /\ \E r \in SendReplies(text, TEXT_SPLIT_LIMIT, api_key) :
                raw_chunks' = split_text_with_gemini_or_fallback(
                                  text, TEXT_SPLIT_LIMIT, api_key, r)
            /\ caller' = "main"
            /\ msg_type' = post_type
            /\ msg_i' = 1
            /\ pc' = "message_loop"
    /\ UNCHANGED <<mainVars, loopVars, text, api_key, callVars, fn, tg_creds, post_type,
                   caption_chunks, tail_i, sent>>

\* one iteration of the loop of send_telegram_message_html
MessageSend ==
    /\ pc = "message_loop" /\ msg_i <= Len(raw_chunks)
    /\ LET safe_html == render_html_with_basic_md(raw_chunks[msg_i])
       IN  \E outcome \in MessageOutcomes :
        /\ sent' = Append(sent,
                      Request("message", raw_chunks[msg_i],
                              MessageTag(msg_type, msg_i), safe_html, outcome))
        /\ IF Raised(outcome) = "" \/ MessageCatches(Raised(outcome))
           THEN msg_i' = msg_i + 1 /\ pc' = pc
           ELSE /\ msg_i' = msg_i
                /\ pc' = IF caller = "photo" /\ PhotoCatches(Raised(outcome))
                         THEN "done" ELSE "raised"
    /\ UNCHANGED <<mainVars, loopVars, text, api_key, callVars, fn, tg_creds, post_type,
                   caption_chunks, tail_i, caller, msg_type, raw_chunks>>

\* send_telegram_message_html returns, to main or into the tail loop
MessageReturn ==
    /\ pc = "message_loop" /\ msg_i > Len(raw_chunks)
    /\ IF caller = "main"
       THEN pc' = "done" /\ UNCHANGED tail_i
       ELSE pc' = "photo_tails" /\ tail_i' = tail_i + 1
    /\ UNCHANGED <<mainVars, loopVars, text, api_key, callVars, fn, tg_creds, post_type,
                   caption_chunks, caller, msg_type, raw_chunks, msg_i, sent>>

\* send_photo_to_telegram_channel(image_path, text, post_type), up to the try
PhotoStart ==
    /\ pc = "start" /\ fn = "photo"
    /\ IF ~tg_creds
       THEN pc' = "done" /\ UNCHANGED caption_chunks
       ELSE /\ \E r \in SendReplies(text, CAPTION_SPLIT_LIMIT, api_key) :
                caption_chunks' = split_text_with_gemini_or_fallback(
                                      text, CAPTION_SPLIT_LIMIT, api_key, r)
            /\ pc' = "photo_send"
    /\ UNCHANGED <<mainVars, loopVars, text, api_key, callVars, fn, tg_creds, post_type, tail_i,
                   caller, msg_type, raw_chunks, msg_i, sent>>

\* the try block up to the tail loop: open the image, post the photo with
\* the caption, check the response; an exception no clause catches leaves the
\* function (pc = "raised")
PhotoSend ==
    /\ pc = "photo_send"
    /\ LET caption_head_html == render_html_with_basic_md(HeadRaw(caption_chunks))
       IN  \E outcome \in PhotoOutcomes :
        /\ sent' = IF outcome = "no_file" THEN sent
                   ELSE Append(sent,
                            Request("caption", HeadRaw(caption_chunks),
                                    CaptionTag(post_type), caption_head_html,
                                    outcome))
        /\ IF Raised(outcome) = ""
           THEN pc' = "photo_tails" /\ tail_i' = 1
           ELSE /\ pc' = IF PhotoCatches(Raised(outcome)) THEN "done" ELSE "raised"
                /\ UNCHANGED tail_i
    /\ UNCHANGED <<mainVars, loopVars, text, api_key, callVars, fn, tg_creds, post_type,
                   caption_chunks, caller, msg_type, raw_chunks, msg_i>>

\* the tail loop calls send_telegram_message_html(chunk, post_type=None)
PhotoTail ==
    /\ pc = "photo_tails" /\ tail_i <= Len(TailChunks(caption_chunks))
    /\ \E r \in SendReplies(TailChunks(caption_chunks)[tail_i],
                            TEXT_SPLIT_LIMIT, api_key) :
        raw_chunks' = split_text_with_gemini_or_fallback(
                          TailChunks(caption_chunks)[tail_i],
                          TEXT_SPLIT_LIMIT, api_key, r)
    /\ caller' = "photo"
    /\ msg_type' = <<>>
    /\ msg_i' = 1
    /\ pc' = "message_loop"
    /\ UNCHANGED <<mainVars, loopVars, text, api_key, callVars, fn, tg_creds, post_type,
                   caption_chunks, tail_i, sent>>

\* send_photo_to_telegram_channel returns after the tail loop
PhotoReturn ==
    /\ pc = "photo_tails" /\ tail_i > Len(TailChunks(caption_chunks))
    /\ pc' = "done"
    /\ UNCHANGED <<text, api_key, callVars, sendVars, mainVars, loopVars>>

Next ==
    \/ MessageStart
    \/ MessageSend
    \/ MessageReturn
    \/ PhotoStart
    \/ PhotoSend
    \/ PhotoTail
    \/ PhotoReturn

Spec == Init /\ [][Next]_vars

(***************************************************************************)
(* Properties of the send functions.                                       *)
(***************************************************************************)
RawsOf(reqs) == [k \in 1..Len(reqs) |-> reqs[k].raw]

IsMessageRequest(req) == req.surface = "message"

\* C5: of the requests of one post only the first carries the category tag,
\* and only when a label was supplied; the tag stands before the segment's
\* markup. Tail segments of a caption are sent without it.
C5_TagOnFirstRequestOnly ==
    /\ \A k \in 1..Len(sent) :
          sent[k].tag = IF k = 1 /\ post_type # <<>> THEN type_tag(post_type)
                        ELSE <<>>
    /\ pc = "done" =>
          \A k \in 1..Len(sent) :
              sent[k].payload = sent[k].tag \o render_html_with_basic_md(sent[k].raw)

\* a labelled photo post whose caption and two or more tail segments were sent
C5_Witness ==
    /\ pc = "done"
    /\ fn = "photo"
    /\ post_type # <<>>
    /\ Len(sent) >= 3
    /\ sent[1].surface = "caption"
    /\ sent[1].tag = type_tag(post_type)
    /\ sent[2].tag = <<>>

\* C6 as claimed: when a caption longer than the caption budget is sent, the
\* head is within the caption limit, there is a tail, and every tail segment
\* is sent as an untagged message whatever became of the photo.
C6_TailsFollowWhateverThePhoto ==
    (pc = "done" /\ fn = "photo" /\ tg_creds /\ Len(text) > CAPTION_SPLIT_LIMIT) =>
        /\ Len(HeadRaw(caption_chunks)) <= CAPTION_LIMIT
        /\ Len(TailChunks(caption_chunks)) >= 1
        /\ RawsOf(SelectSeq(sent, IsMessageRequest)) = TailChunks(caption_chunks)
        /\ \A k \in 1..Len(sent) : sent[k].surface = "message" => sent[k].tag = <<>>

\* the hard limit of the surface a request goes to
HardLimit(surface) == IF surface = "caption" THEN CAPTION_LIMIT ELSE MESSAGE_LIMIT

\* C7 as claimed: every payload posted is within the hard limit of its
\* surface.
C7_PayloadWithinHardLimit ==
    \A k \in 1..Len(sent) : Len(sent[k].payload) <= HardLimit(sent[k].surface)

\* C8 as claimed: when a send function has returned, the segments of the
\* post were posted in split order, each once, none skipped: all of them as
\* messages for a text post; for a photo post the caption first, if the
\* photo got as far as being posted, and then every tail segment.
C8_EverySegmentPostedInOrder ==
    (pc = "done" /\ tg_creds) =>
        IF fn = "message" THEN RawsOf(sent) = raw_chunks
        ELSE /\ RawsOf(SelectSeq(sent, IsMessageRequest)) = TailChunks(caption_chunks)
             /\ \A k \in 1..Len(sent) :
                   sent[k].surface = "caption" =>
                       (k = 1 /\ sent[k].raw = HeadRaw(caption_chunks))

(***************************************************************************)
(* head_raw and tail_chunks of send_photo_to_telegram_channel as a         *)
(* function of caption_chunks, on lists of up to MaxChunks segments; the   *)
(* lists include first segments longer than CAPTION_LIMIT, which the       *)
(* splitters, held to CAPTION_SPLIT_LIMIT, do not produce.                 *)
(***************************************************************************)
MaxChunks == 3

ChunkTexts ==
    {<<"h">>,
     Rep("b", CAPTION_SPLIT_LIMIT),
     Rep("a", CAPTION_LIMIT),
     Rep("a", CAPTION_LIMIT) \o <<"x">>,
     Rep("a", CAPTION_LIMIT) \o <<"x", "y">>}

InitHead ==
    /\ pc = "head_start"
    /\ caption_chunks \in UNION {[1..m -> ChunkTexts] : m \in 1..MaxChunks}
    /\ text = <<>>
    /\ limit = 0
    /\ api_key = FALSE
    /\ reply = None
    /\ called = 0
    /\ result = None
    /\ fn = "photo"
    /\ tg_creds = TRUE
    /\ post_type = <<>>
    /\ tail_i = 0
    /\ caller = ""
    /\ msg_type = <<>>
    /\ raw_chunks = <<>>
    /\ msg_i = 0
    /\ sent = <<>>
    /\ NoMain
    /\ NoLoop

\* head_raw, then tail_chunks, as one list
CallHeadTail ==
    /\ pc = "head_start"
    /\ result' = Some(<<HeadRaw(caption_chunks)>> \o TailChunks(caption_chunks))
    /\ pc' = "head_done"
    /\ UNCHANGED <<text, limit, api_key, reply, called, sendVars, mainVars, loopVars>>

NextHead == CallHeadTail

SpecHead == InitHead /\ [][NextHead]_vars

HeadWithinSplitLimit ==
    caption_chunks # <<>> =>
        /\ Len(caption_chunks[1]) <= CAPTION_SPLIT_LIMIT
        /\ HeadRaw(caption_chunks) = caption_chunks[1]

MaxPosts == 2

\* async def fetch_latest_messages(api_id, api_hash, channel_username, limit=1)
FetchParams == <<"api_id", "api_hash", "channel_username", "limit">>
FetchDefaults == {"limit"}

\* the parameters a call with npos positional arguments and the keyword
\* arguments kw leaves without a value
MissingParams(npos, kw) ==
    {FetchParams[k] : k \in (npos + 1)..Len(FetchParams)} \ (kw \cup FetchDefaults)

\* the value of the call expression: binding fails with TypeError when a
\* required parameter has no value; otherwise calling the async function
\* gives a coroutine object, its body not run
FetchCall(npos, kw) ==
    IF MissingParams(npos, kw) # {} THEN "TypeError" ELSE "coroutine"

\* the try block of main around fetch_latest_messages(channel_link,
\* limit=twitter_fetch_limit): None when the channel is left by `continue`,
\* Some(list) when the loop over the messages is entered. The call raises
\* TypeError; were it bound, len() of the coroutine would raise TypeError;
\* `except Exception` catches either.
FetchMessages(posts) ==
    LET v == FetchCall(1, {"limit"})
    IN  IF v = "TypeError" THEN None
        ELSE IF v = "coroutine" THEN None
        ELSE IF posts = <<>> THEN None ELSE Some(posts)

\* translate_text_gemini(t): "" for a blank text, without a key or when
\* every attempt failed; otherwise the stripped, non-empty text of the reply
Translation(t) ==
    IF t = <<"b">> THEN Rep("a", CAPTION_SPLIT_LIMIT + 1) ELSE <<"h", "i">>

TranslateOutcomes(t) ==
    IF strip(t) = <<>> THEN {<<>>} ELSE {<<>>, Translation(t)}

\* one entry of result_output
LogEntry(c, msg, original_text, tr) ==
    [channel |-> c, original_text |-> original_text, translated_text |-> tr,
     message_id |-> msg.id]

\* a call main made for a post ("translate", with whether the translation
\* came back empty; "send"), the return of the send function ("returned",
\* with whether anything went wrong in it) and the append to result_output
\* ("log")
Event(op, msg, original_text, failed) ==
    [op |-> op, message_id |-> msg.id, original_text |-> original_text,
     failed |-> failed]

\* the duplicate test of the inner loop: a non-empty text that is among the
\* texts loaded before the loops
IsDuplicate_never(original_text, posted) == FALSE

IsDuplicate(original_text, posted) ==
    original_text # <<>> /\ original_text \in posted

\* the test on the translation: nothing came back, or only whitespace
EmptyTranslation(tr) == tr = <<>> \/ strip(tr) = <<>>

\* the send function that just returned met a failure: no credentials, no
\* request posted, or a request that did not come back ok
SendFailed ==
    \/ ~tg_creds
    \/ sent = <<>>
    \/ \E k \in 1..Len(sent) : sent[k].outcome # "ok"

\* the variables of the send functions between two calls
SendIdle ==
    /\ pc' = "idle"
    /\ text' = <<>>
    /\ fn' = ""
    /\ post_type' = <<>>
    /\ caption_chunks' = <<>>
    /\ tail_i' = 0
    /\ caller' = ""
    /\ msg_type' = <<>>
    /\ raw_chunks' = <<>>
    /\ msg_i' = 0
    /\ sent' = <<>>

\* the outer loop at one channel: the fetch, or the end of the loop
MainFetch ==
    /\ mpc = "fetch" /\ ch <= Len(channels)
    /\ LET r == FetchMessages(timeline[ch])
       IN  IF r = None
           THEN /\ skipped' = Append(skipped, ch)
                /\ ch' = ch + 1
                /\ UNCHANGED <<mpc, messages, post_i>>
           ELSE /\ messages' = r.val
                /\ post_i' = 1
                /\ mpc' = "post"
                /\ UNCHANGED <<skipped, ch>>
    /\ UNCHANGED <<loopVars, pc, text, api_key, callVars, sendVars, channels, timeline,
                   posted_messages, translated, result_output, saved, events>>

\* one post of the inner loop up to the call of a send function: duplicate
\* check, translation, check of the translation, download of the photo
MainPost ==
    /\ mpc = "post" /\ post_i <= Len(messages)
    /\ LET msg == messages[post_i]
           original_text == strip(msg.text)
       IN  IF IsDuplicate(original_text, posted_messages)
           THEN /\ post_i' = post_i + 1
                /\ UNCHANGED <<mpc, translated, events, pc, text, fn, post_type, sent>>
           ELSE \E tr \in TranslateOutcomes(original_text) :
                  IF EmptyTranslation(tr)
                  THEN /\ post_i' = post_i + 1
                       /\ events' = Append(events, Event("translate", msg, original_text, TRUE))
                       /\ UNCHANGED <<mpc, translated, pc, text, fn, post_type, sent>>
                  ELSE /\ translated' = tr
                       /\ \E downloaded \in BOOLEAN :
                            fn' = IF msg.photos > 0 /\ downloaded
                                  THEN "photo" ELSE "message"
                       /\ events' = events \o
                              <<Event("translate", msg, original_text, FALSE),
                                Event("send", msg, original_text, FALSE)>>
                       /\ text' = tr
                       /\ post_type' = channels[ch]
                       /\ sent' = <<>>
                       /\ pc' = "start"
                       /\ mpc' = "sending"
                       /\ UNCHANGED post_i
    /\ UNCHANGED <<loopVars, api_key, callVars, tg_creds, caption_chunks, tail_i, caller,
                   msg_type, raw_chunks, msg_i, channels, timeline, ch, messages,
                   posted_messages, result_output, saved, skipped>>

\* the send function returned: the post is appended to result_output
MainLog ==
    /\ mpc = "sending" /\ pc = "done"
    /\ LET msg == messages[post_i]
       IN  /\ result_output' = Append(result_output,
                                   LogEntry(ch, msg, strip(msg.text), translated))
           /\ events' = events \o
                  <<Event("returned", msg, strip(msg.text), SendFailed),
                    Event("log", msg, strip(msg.text), FALSE)>>
    /\ post_i' = post_i + 1
    /\ translated' = <<>>
    /\ mpc' = "post"
    /\ SendIdle
    /\ UNCHANGED <<loopVars, api_key, callVars, tg_creds, channels, timeline, ch, messages,
                   posted_messages, saved, skipped>>

\* the inner loop is over: on to the next channel
MainNextChannel ==
    /\ mpc = "post" /\ post_i > Len(messages)
    /\ ch' = ch + 1
    /\ mpc' = "fetch"
    /\ UNCHANGED <<loopVars, pc, text, api_key, callVars, sendVars, channels, timeline,
                   messages, post_i, posted_messages, translated, result_output,
                   saved, skipped, events>>

\* after the outer loop: save_results when something was logged
MainSave ==
    /\ mpc = "fetch" /\ ch > Len(channels)
    /\ saved' = IF result_output # <<>> THEN Some(result_output) ELSE None
    /\ mpc' = "main_done"
    /\ UNCHANGED <<loopVars, pc, text, api_key, callVars, sendVars, channels, timeline, ch,
                   messages, post_i, posted_messages, translated, result_output,
                   skipped, events>>

(***************************************************************************)
(* Instances of main: two channels, with and without a type, and up to     *)
(* MaxPosts posts on a timeline.                                           *)
(***************************************************************************)
\* the posts the reader builds have a text or a photo: a photo alone, a short
\* text, a text with a long translation and a photo
PostKinds ==
    {[text |-> <<>>, photos |-> 1],
     [text |-> <<"a">>, photos |-> 0],
     [text |-> <<"b">>, photos |-> 1]}

PostLists(n) ==
    {[i \in 1..Len(ks) |-> [id |-> i, text |-> ks[i].text, photos |-> ks[i].photos]] :
        ks \in UNION {[1..m -> PostKinds] : m \in 0..n}}

\* channels_data, each row by its channel_type: a channel with a type and a
\* second without
ChannelLists == {<< <<"M", "&", "E">>, <<>> >>}

\* the state of main before the outer loop (posted_messages and
\* channels_data loaded, result_output empty), the send functions idle
MainLoaded ==
    /\ channels \in ChannelLists
    /\ posted_messages \in SUBSET {<<"a">>}
    /\ api_key \in BOOLEAN
    /\ tg_creds \in BOOLEAN
    /\ ch = 1
    /\ translated = <<>>
    /\ result_output = <<>>
    /\ saved = None
    /\ skipped = <<>>
    /\ events = <<>>
    /\ pc = "idle"
    /\ text = <<>>
    /\ limit = 0
    /\ reply = NoReply
    /\ called = 0
    /\ result = None
    /\ fn = ""
    /\ post_type = <<>>
    /\ caption_chunks = <<>>
    /\ tail_i = 0
    /\ caller = ""
    /\ msg_type = <<>>
    /\ raw_chunks = <<>>
    /\ msg_i = 0
    /\ sent = <<>>
    /\ NoLoop

\* main from the top of the outer loop
InitMain ==
    /\ MainLoaded
    /\ timeline \in [1..Len(channels) -> PostLists(MaxPosts)]
    /\ mpc = "fetch"
    /\ messages = <<>>
    /\ post_i = 0

NextMain ==
    \/ MainFetch
    \/ MainSave

SpecMain == InitMain /\ [][NextMain]_vars /\ WF_vars(NextMain)

\* main at the top of the inner loop of its first channel, `messages` holding
\* the posts of that channel's timeline; a step of the program is taken while
\* one is possible
InitPosts ==
    /\ MainLoaded
    /\ timeline \in {tl \in [1..Len(channels) -> PostLists(MaxPosts)] :
                        /\ tl[1] # <<>>
                        /\ \A c \in 2..Len(channels) : tl[c] = tl[1]}
    /\ mpc = "post"
    /\ messages = timeline[1]
    /\ post_i = 1

NextPosts ==
    \/ MainFetch
    \/ MainPost
    \/ MainLog
    \/ MainNextChannel
    \/ MainSave
    \/ MessageStart
    \/ MessageSend
    \/ MessageReturn
    \/ PhotoStart
    \/ PhotoSend
    \/ PhotoTail
    \/ PhotoReturn

SpecPosts == InitPosts /\ [][NextPosts]_vars /\ WF_vars(NextPosts)

(***************************************************************************)
(* Properties of main.                                                     *)
(***************************************************************************)
\* the events of kind op
EventsOf(op) == SelectSeq(events, LAMBDA e : e.op = op)

\* C11: no failure while splitting, rendering or sending a post aborts the
\* batch: whatever the Selector and each Telegram request do, no exception
\* leaves a send function (while one runs it is at one of its steps or has
\* returned), every call of a send function has returned when main is back
\* in its loops, and main ends past the last post and the last channel.
C11_NoFailureAbortsBatch ==
    /\ pc # "raised"
    /\ mpc \in {"fetch", "post", "sending", "main_done"}
    /\ mpc = "sending" =>
          pc \in {"start", "message_loop", "photo_send", "photo_tails", "done"}
    /\ mpc # "sending" => Len(EventsOf("returned")) = Len(EventsOf("send"))
    /\ mpc = "main_done" =>
          /\ post_i = Len(messages) + 1
          /\ ch = Len(channels) + 1

\* main ended after a send function met a failure for one post, sent a later
\* post and visited a second channel
C11_Witness ==
    /\ mpc = "main_done"
    /\ ch = Len(channels) + 1
    /\ Len(channels) >= 2
    /\ \E i, j \in 1..Len(events) :
          /\ i < j
          /\ events[i].op = "returned" /\ events[i].failed
          /\ events[j].op = "send"

\* C16: a post is handed to a send function and appended to result_output
\* only if its text is not among posted_messages and its translation is not
\* empty after trimming; a duplicate is neither translated nor sent nor
\* logged, a post whose translation is empty is neither sent nor logged, and
\* posted_messages is the same after every step of the batch.
C16_OnlyNewTranslatedPostsSent ==
    /\ [](/\ \A k \in 1..Len(events) :
               /\ events[k].original_text \notin posted_messages
               /\ events[k].op = "send" =>
                     /\ k > 1
                     /\ events[k - 1].op = "translate"
                     /\ events[k - 1].message_id = events[k].message_id
                     /\ ~events[k - 1].failed
               /\ events[k].op = "returned" =>
                     /\ k > 1
                     /\ events[k - 1].op = "send"
                     /\ events[k - 1].message_id = events[k].message_id
               /\ events[k].op = "log" =>
                     /\ k > 1
                     /\ events[k - 1].op = "returned"
                     /\ events[k - 1].message_id = events[k].message_id
               /\ (events[k].op = "translate" /\ events[k].failed /\ k < Len(events)) =>
                     events[k + 1].op = "translate"
          /\ mpc = "sending" =>
               /\ ~IsDuplicate(strip(messages[post_i].text), posted_messages)
               /\ strip(messages[post_i].text) \notin posted_messages
               /\ strip(translated) # <<>>
               /\ text = translated
          /\ pc # "idle" => mpc = "sending"
          /\ Len(result_output) = Len(EventsOf("log"))
          /\ \A k \in 1..Len(result_output) :
               /\ result_output[k].original_text \notin posted_messages
               /\ strip(result_output[k].translated_text) # <<>>)
    /\ [][posted_messages' = posted_messages]_vars

\* main went through a list that starts with a duplicate and goes on with a
\* new post: the duplicate left no event, the new post was translated, sent
\* and logged
C16_Witness ==
    /\ mpc = "main_done"
    /\ Len(messages) = 2
    /\ IsDuplicate(strip(messages[1].text), posted_messages)
    /\ \A k \in 1..Len(events) : events[k].message_id = messages[2].id
    /\ \E k \in 1..Len(events) : events[k].op = "send"
    /\ Len(result_output) = 1
    /\ result_output[1].message_id = messages[2].id

\* C17: for every configured channel the call of fetch_latest_messages
\* gives main the posts of the channel, and a channel whose list is not
\* empty is not skipped: when main has ended, every channel with a post went
\* through the inner loop, and so none of them is among the skipped ones.
C17_ChannelsWithPostsProcessed ==
    mpc = "main_done" =>
        \A c \in 1..Len(channels) :
            timeline[c] # <<>> => \A k \in 1..Len(skipped) : skipped[k] # c

====
